---- MODULE Spec2Model ----
(***************************************************************************)
(* HandMovementRecognitionCalculator                                       *)
(* (src/hand_movement_recognition/hand_movement_recognition_calculator.cc) *)
(*                                                                         *)
(* Numbers.  The calculator works on floats normalised to [0,1].  Here a   *)
(* coordinate or a height is an integer number of hundredths (0.56 is 56,  *)
(* the 0.1 offset of the reference point is 10) and the arithmetic is      *)
(* exact.  An angle in radians is kept as the pair <<cross, dot>> that     *)
(* atan2 is applied to; radianToDegree turns the pair into the integer     *)
(* degree floor(atan2(cross, dot) * 180 / pi + 0.5).  A distance is kept   *)
(* as its square and compared with a threshold by squaring.                *)
(***************************************************************************)
EXTENDS Integers, Sequences, FiniteSets, TLC

VARIABLES
    previous_x_center,          \* float field, line 39
    previous_y_center,          \* float field, line 40
    previous_angle,             \* float field, line 41 (holds integer degrees)
    previous_rectangle_height,  \* float field, line 43
    frameCounter,               \* value of the counter of line 111
    outScrolling,               \* packets added to RECOGNIZED_HAND_MOVEMENT_SCROLLING
    outZooming,                 \* packets added to RECOGNIZED_HAND_MOVEMENT_ZOOMING
    outSliding,                 \* packets added to RECOGNIZED_HAND_MOVEMENT_SLIDING
    frame,                      \* the input packets of the latest Process call
    status,                     \* how the latest Process call ended
    before,                     \* the four fields as the latest call found them
    twin                        \* a second calculator, run side by side

vars == <<previous_x_center, previous_y_center, previous_angle,
          previous_rectangle_height, frameCounter,
          outScrolling, outZooming, outSliding, frame, status, before, twin>>

calcState == <<previous_x_center, previous_y_center, previous_angle,
               previous_rectangle_height>>

outputs == <<outScrolling, outZooming, outSliding>>

----------------------------------------------------------------------------
(* Bounds of the model *)

\* number of Process calls of one run
MaxFrames == 4

\* number of Process calls of one run in which only the hand turns
MaxSlideFrames == 6

\* number of Process calls of each of two runs side by side
MaxPairFrames == 4

----------------------------------------------------------------------------
(* Constants of the program *)

\* movementDistanceFactor = 0.02, in hundredths
movementDistanceFactor == 2

\* heightDifferenceFactor = 0.03, in hundredths
heightDifferenceFactor == 3

angleDifferenceTreshold == 12

\* lower and upper end of the range of previous_angle in which a slide is
\* recognised
slideGateLow == 80

slideGateHigh == 100

\* index of the landmark read as MCP_of_second_finger
mcpIndex == 9

None == "___"

ScrollLabels == {None, "Scrolling right", "Scrolling up", "Scrolling left", "Scrolling down"}

ZoomLabels == {None, "Zoom out", "Zoom in"}

SlideLabels == {None, "Slide left", "Slide right"}

----------------------------------------------------------------------------
(* Geometry helpers *)

\* the square of the distance the code returns
get_Euclidean_DistanceAB(a_x, a_y, b_x, b_y) ==
    (a_x - b_x) * (a_x - b_x) + (a_y - b_y) * (a_y - b_y)

\* sqrt(distSq) > factor/100 * height, both sides exact
DistanceExceeds(distSq, factor, height) ==
    \/ factor * height < 0
    \/ 10000 * distSq > (factor * height) * (factor * height)

\* getAngleABC with ab taken from b to a instead of from a to b
getAngleABC_Reversed(a_x, a_y, b_x, b_y, c_x, c_y) ==
    LET ab_x == a_x - b_x
        ab_y == a_y - b_y
        cb_x == b_x - c_x
        cb_y == b_y - c_y
        dot == ab_x * cb_x + ab_y * cb_y
        cross == ab_x * cb_y - ab_y * cb_x
    IN  <<cross, dot>>

\* the argument pair of std::atan2(cross, dot)
getAngleABC(a_x, a_y, b_x, b_y, c_x, c_y) ==
    LET ab_x == b_x - a_x
        ab_y == b_y - a_y
        cb_x == b_x - c_x
        cb_y == b_y - c_y
        dot == ab_x * cb_x + ab_y * cb_y
        cross == ab_x * cb_y - ab_y * cb_x
    IN  <<cross, dot>>

\* TanHalfDegree[n + 1] = tan((n + 0.5) degrees) * 10^6, n in 0..89
TanHalfDegree ==
    <<8727, 26186, 43661, 61163, 78702, 96289, 113936, 131652, 149451,
      167343, 185339, 203452, 221695, 240079, 258618, 277325, 296213,
      315299, 334595, 354119, 373885, 393910, 414214, 434812, 455726,
      476976, 498582, 520567, 542956, 565773, 589045, 612801, 637070,
      661886, 687281, 713293, 739961, 767327, 795436, 824336, 854081,
      884725, 916331, 948965, 982697, 1017607, 1053780, 1091309, 1130294,
      1170850, 1213097, 1257172, 1303225, 1351422, 1401948, 1455009,
      1510835, 1569686, 1631852, 1697663, 1767494, 1841771, 1920982,
      2005690, 2096544, 2194300, 2299843, 2414214, 2538648, 2674621,
      2823913, 2988685, 3171595, 3375943, 3605884, 3866713, 4165300,
      4510709, 4915157, 5395517, 5975764, 6691156, 7595754, 8776887,
      10385397, 12706205, 16349855, 22903766, 38188459, 114588650>>

\* floor(atan(y / x) in degrees + 0.5) for y > 0, x > 0
RoundedAtanDegree(y, x) ==
    LET below == {n \in 0..89 : (y * 1000000) \div x < TanHalfDegree[n + 1]}
    IN  IF below = {} THEN 90
        ELSE CHOOSE n \in below : \A m \in below : n <= m

Abs(i) == IF i < 0 THEN -i ELSE i

\* radianToDegree of an angle that lost the sign of the cross product
radianToDegree_Unsigned(radian) ==
    LET cross == radian[1]
        dot == radian[2]
        acute == RoundedAtanDegree(Abs(cross), Abs(dot))
    IN  IF cross = 0 THEN (IF dot >= 0 THEN 0 ELSE 180)
        ELSE IF dot > 0 THEN acute
        ELSE IF dot = 0 THEN 90
        ELSE 180 - acute

\* (int)floor(radian * 180. / M_PI + 0.5) of radian = atan2(cross, dot)
radianToDegree(radian) ==
    LET cross == radian[1]
        dot == radian[2]
        acute == RoundedAtanDegree(Abs(cross), Abs(dot))
        unsigned == IF dot > 0 THEN acute
                    ELSE IF dot = 0 THEN 90
                    ELSE 180 - acute
    IN  IF cross = 0 THEN (IF dot >= 0 THEN 0 ELSE 180)
        ELSE IF cross > 0 THEN unsigned
        ELSE -unsigned

----------------------------------------------------------------------------
(* Inputs *)

NoFrame == [none |-> TRUE]

Point(x, y) == [x |-> x, y |-> y]

RectCenters ==
    {Point(50, 50), Point(56, 50), Point(50, 56), Point(0, 50)}

RectHeights == {-30, 0, 30, 100, 103}

Wrist == Point(50, 80)

\* positions of landmark 9; the hand angles they give are
\* 90, 81, 99, 117, 63 and 0 degrees
McpPoints ==
    {Point(50, 74), Point(51, 74), Point(49, 74), Point(49, 78),
     Point(51, 78), Point(56, 80)}

\* a landmark list of n points: landmark(0) is the wrist, landmark(9) the MCP
HandLandmarks(n, mcp) ==
    [i \in 1..n |-> IF i = 1 THEN Wrist ELSE IF i = mcpIndex + 1 THEN mcp ELSE Wrist]

LandmarkLists ==
    {HandLandmarks(10, m) : m \in McpPoints \ {Point(49, 78)}}
        \cup {HandLandmarks(21, Point(49, 78)), HandLandmarks(5, Wrist), << >>}

Rect(c, h) == [x_center |-> c.x, y_center |-> c.y, height |-> h]

\* every center at one height, one center at every height, and a step
\* of 0.01 at height 1.0, which is below the scroll threshold
Rects ==
    {Rect(c, 30) : c \in RectCenters}
        \cup {Rect(Point(50, 50), h) : h \in RectHeights}
        \cup {Rect(Point(51, 50), 100)}

\* values an uninitialised float field may hold
UninitializedFloats == {0, 90}

\* what landmark(9) may return when the list has fewer than 10 entries
OutOfRangeLandmarks == {Point(50, 74), Point(49, 78)}

----------------------------------------------------------------------------
(* The three features of Process *)

\* the angle ranges with > for >= at 135 degrees
ScrollDirection_Gap(angle) ==
    IF angle >= -45 /\ angle < 45 THEN "Scrolling right"
    ELSE IF angle >= 45 /\ angle < 135 THEN "Scrolling up"
    ELSE IF angle > 135 \/ angle < -135 THEN "Scrolling left"
    ELSE IF angle >= -135 /\ angle < -45 THEN "Scrolling down"
    ELSE None

\* the label of an angle, lines 146-161; an angle in no range leaves the
\* default label
ScrollDirection(angle) ==
    IF angle >= -45 /\ angle < 45 THEN "Scrolling right"
    ELSE IF angle >= 45 /\ angle < 135 THEN "Scrolling up"
    ELSE IF angle >= 135 \/ angle < -135 THEN "Scrolling left"
    ELSE IF angle >= -135 /\ angle < -45 THEN "Scrolling down"
    ELSE None

\* 1. FEATURE - Scrolling: the label of lines 132-164
ScrollingFeature(prev_x, prev_y, x_center, y_center, height) ==
    IF prev_x # 0
    THEN LET movementDistance ==
                 get_Euclidean_DistanceAB(x_center, y_center, prev_x, prev_y)
             angle == radianToDegree(getAngleABC(x_center, y_center,
                                                 prev_x, prev_y,
                                                 prev_x + 10, prev_y))
         IN  IF DistanceExceeds(movementDistance, movementDistanceFactor, height)
             THEN ScrollDirection(angle)
             ELSE None
    ELSE None

\* the zoom feature with <= and >= for < and >
ZoomingFeature_Inclusive(prev_height, height) ==
    IF prev_height # 0
    THEN IF 100 * height <= 100 * prev_height - heightDifferenceFactor * height
         THEN "Zoom out"
         ELSE IF 100 * height >= 100 * prev_height + heightDifferenceFactor * height
         THEN "Zoom in"
         ELSE None
    ELSE None

\* the zoom feature with the threshold added where it is subtracted
ZoomingFeature_SignSlip(prev_height, height) ==
    IF prev_height # 0
    THEN IF 100 * height < 100 * prev_height + heightDifferenceFactor * height
         THEN "Zoom out"
         ELSE IF 100 * height > 100 * prev_height + heightDifferenceFactor * height
         THEN "Zoom in"
         ELSE None
    ELSE None

\* 2. FEATURE - Zoom in/out: the label of lines 169-185
\* height < prev_height - height * 0.03, multiplied by 100
ZoomingFeature(prev_height, height) ==
    IF prev_height # 0
    THEN IF 100 * height < 100 * prev_height - heightDifferenceFactor * height
         THEN "Zoom out"
         ELSE IF 100 * height > 100 * prev_height + heightDifferenceFactor * height
         THEN "Zoom in"
         ELSE None
    ELSE None

\* the hand angle of lines 195-196
HandAngle(wrist, MCP_of_second_finger) ==
    radianToDegree(getAngleABC(MCP_of_second_finger.x, MCP_of_second_finger.y,
                               wrist.x, wrist.y, wrist.x + 10, wrist.y))

\* the slide feature without the test of previous_angle against [80, 100]
SlidingFeature_NoGate(prev_angle, ang_in_degree) ==
    IF prev_angle # 0
    THEN IF ang_in_degree > prev_angle + angleDifferenceTreshold
         THEN "Slide left"
         ELSE IF ang_in_degree < prev_angle - angleDifferenceTreshold
         THEN "Slide right"
         ELSE None
    ELSE None

\* the slide feature with the two labels exchanged
SlidingFeature_Swapped(prev_angle, ang_in_degree) ==
    IF prev_angle # 0
    THEN IF prev_angle >= slideGateLow /\ prev_angle <= slideGateHigh
         THEN IF ang_in_degree > prev_angle + angleDifferenceTreshold
              THEN "Slide right"
              ELSE IF ang_in_degree < prev_angle - angleDifferenceTreshold
              THEN "Slide left"
              ELSE None
         ELSE None
    ELSE None

\* 3. FEATURE - Slide left / right: the label of lines 198-215
SlidingFeature(prev_angle, ang_in_degree) ==
    IF prev_angle # 0
    THEN IF prev_angle >= slideGateLow /\ prev_angle <= slideGateHigh
         THEN IF ang_in_degree > prev_angle + angleDifferenceTreshold
              THEN "Slide left"
              ELSE IF ang_in_degree < prev_angle - angleDifferenceTreshold
              THEN "Slide right"
              ELSE None
         ELSE None
    ELSE None

\* the first frame is a slide frame too
SlideFrame_FirstToo(counter) == counter = 1 \/ counter % 2 = 0

\* the even frames are skipped instead of the odd ones
SlideFrame_Odd(counter) == counter % 2 = 1

\* no frame is skipped
SlideFrame_Every(counter) == counter % 2 \in {0, 1}

\* frameCounter->Get() % 2 == 0, line 189
SlideFrame(counter) == counter % 2 = 0

\* a packet stamped with a fixed timestamp
Packet_Unstamped(value, timestamp) == [value |-> value, timestamp |-> 0]

Packet(value, timestamp) == [value |-> value, timestamp |-> timestamp]

----------------------------------------------------------------------------
(* The calculator *)

TypeOK ==
    /\ frameCounter \in 0..(MaxFrames + MaxSlideFrames + MaxPairFrames)
    /\ status \in {"none", "ok", "error", "crashed"}
    /\ \A i \in 1..Len(outScrolling) : outScrolling[i].value \in ScrollLabels
    /\ \A i \in 1..Len(outZooming) : outZooming[i].value \in ZoomLabels
    /\ \A i \in 1..Len(outSliding) : outSliding[i].value \in SlideLabels

Fields ==
    [x_center |-> previous_x_center, y_center |-> previous_y_center,
     angle |-> previous_angle, height |-> previous_rectangle_height]

\* no second calculator
NoTwin == [mode |-> "none"]

\* the object as constructed: the float fields have no initialiser, the
\* counter starts at 0, nothing has been emitted
Init ==
    /\ previous_x_center \in UninitializedFloats
    /\ previous_y_center \in UninitializedFloats
    /\ previous_angle \in UninitializedFloats
    /\ previous_rectangle_height \in UninitializedFloats
    /\ frameCounter = 0
    /\ outScrolling = << >>
    /\ outZooming = << >>
    /\ outSliding = << >>
    /\ frame = NoFrame
    /\ status = "none"
    /\ before = Fields
    /\ twin = NoTwin

\* the caller feeds one frame per call, in timestamp order
NextTimestamp == IF frame = NoFrame THEN 0 ELSE frame.timestamp + 1

Arrives(f) ==
    /\ status # "crashed"
    /\ f.timestamp = NextTimestamp
    /\ frame' = f
    /\ before' = Fields

\* Process without the RET_CHECK_GT: the call goes on with an empty list and
\* emits the default labels
ProcessRetCheckFails_Unchecked(f) ==
    /\ Arrives(f)
    /\ Len(f.landmarks) = 0
    /\ frameCounter' = frameCounter + 1
    /\ previous_x_center' = f.rect.x_center
    /\ previous_y_center' = f.rect.y_center
    /\ previous_rectangle_height' = f.rect.height
    /\ outScrolling' = Append(outScrolling, Packet(None, f.timestamp))
    /\ outZooming' = Append(outZooming, Packet(None, f.timestamp))
    /\ outSliding' = Append(outSliding, Packet(None, f.timestamp))
    /\ status' = "ok"
    /\ UNCHANGED previous_angle

\* Process, lines 111-129: the counter is incremented, then the RET_CHECK_GT
\* on the landmark list fails and the call returns the error
ProcessRetCheckFails(f) ==
    /\ Arrives(f)
    /\ Len(f.landmarks) = 0
    /\ frameCounter' = frameCounter + 1
    /\ status' = "error"
    /\ UNCHANGED <<calcState, outputs>>

\* Process emitting one gesture per frame: a recognised slide takes the
\* place of the scroll and the zoom label
ProcessStep_OneGesture(fields, counter, rect, wrist, landmark9) ==
    LET ang_in_degree == HandAngle(wrist, landmark9)
        sliding == IF SlideFrame(counter)
                   THEN SlidingFeature(fields.angle, ang_in_degree)
                   ELSE None
    IN  [x_center |-> rect.x_center,
         y_center |-> rect.y_center,
         height |-> rect.height,
         angle |-> IF SlideFrame(counter) THEN ang_in_degree ELSE fields.angle,
         scrolling |-> IF sliding # None THEN None
                       ELSE ScrollingFeature(fields.x_center, fields.y_center,
                                             rect.x_center, rect.y_center,
                                             rect.height),
         zooming |-> IF sliding # None THEN None
                     ELSE ZoomingFeature(fields.height, rect.height),
         sliding |-> sliding]

\* lines 131-217 of Process as a function: from the four fields, the value
\* of the counter, the rectangle and the two landmarks to the four fields
\* afterwards and the three labels
ProcessStep(fields, counter, rect, wrist, landmark9) ==
    LET ang_in_degree == HandAngle(wrist, landmark9)
    IN  [x_center |-> rect.x_center,
         y_center |-> rect.y_center,
         height |-> rect.height,
         angle |-> IF SlideFrame(counter) THEN ang_in_degree ELSE fields.angle,
         scrolling |-> ScrollingFeature(fields.x_center, fields.y_center,
                                        rect.x_center, rect.y_center,
                                        rect.height),
         zooming |-> ZoomingFeature(fields.height, rect.height),
         sliding |-> IF SlideFrame(counter)
                     THEN SlidingFeature(fields.angle, ang_in_degree)
                     ELSE None]

\* Process storing the center only when a scroll label was recognised
ProcessCompletes_StoreOnMove(f, landmark9) ==
    LET height == f.rect.height
        x_center == f.rect.x_center
        y_center == f.rect.y_center
        counter == frameCounter + 1
        wrist == f.landmarks[1]
        ang_in_degree == HandAngle(wrist, landmark9)
        scrolling == ScrollingFeature(previous_x_center, previous_y_center,
                                      x_center, y_center, height)
        zooming == ZoomingFeature(previous_rectangle_height, height)
        sliding == IF SlideFrame(counter)
                   THEN SlidingFeature(previous_angle, ang_in_degree)
                   ELSE None
        moved == previous_x_center = 0 \/ scrolling # None
    IN  /\ Arrives(f)
        /\ Len(f.landmarks) > 0
        /\ frameCounter' = counter
        /\ previous_x_center' = IF moved THEN x_center ELSE previous_x_center
        /\ previous_y_center' = IF moved THEN y_center ELSE previous_y_center
        /\ previous_rectangle_height' = height
        /\ previous_angle' = IF SlideFrame(counter) THEN ang_in_degree
                             ELSE previous_angle
        /\ outScrolling' = Append(outScrolling, Packet(scrolling, f.timestamp))
        /\ outZooming' = Append(outZooming, Packet(zooming, f.timestamp))
        /\ outSliding' = Append(outSliding, Packet(sliding, f.timestamp))
        /\ status' = "ok"

\* Process, lines 111-231, run to the end; landmark9 is what landmark(9)
\* returns
ProcessCompletes(f, landmark9) ==
    LET counter == frameCounter + 1
        step == ProcessStep(Fields, counter, f.rect, f.landmarks[1], landmark9)
    IN  /\ Arrives(f)
        /\ Len(f.landmarks) > 0
        /\ frameCounter' = counter
        /\ previous_x_center' = step.x_center
        /\ previous_y_center' = step.y_center
        /\ previous_rectangle_height' = step.height
        /\ previous_angle' = step.angle
        /\ outScrolling' = Append(outScrolling, Packet(step.scrolling, f.timestamp))
        /\ outZooming' = Append(outZooming, Packet(step.zooming, f.timestamp))
        /\ outSliding' = Append(outSliding, Packet(step.sliding, f.timestamp))
        /\ status' = "ok"

\* Process, lines 111-192, on a slide frame whose list has 1..9 landmarks:
\* landmark(9) is out of range and the process dies there, after the
\* center and the height were stored and before anything is emitted
ProcessOutOfRangeCrashes(f) ==
    /\ Arrives(f)
    /\ Len(f.landmarks) > 0
    /\ Len(f.landmarks) <= mcpIndex
    /\ SlideFrame(frameCounter + 1)
    /\ frameCounter' = frameCounter + 1
    /\ previous_x_center' = f.rect.x_center
    /\ previous_y_center' = f.rect.y_center
    /\ previous_rectangle_height' = f.rect.height
    /\ status' = "crashed"
    /\ UNCHANGED <<previous_angle, outputs>>

\* the values landmark(9) can return for the list of f
Landmark9(f) ==
    IF Len(f.landmarks) > mcpIndex THEN {f.landmarks[mcpIndex + 1]}
    ELSE OutOfRangeLandmarks

Process(f) ==
    \/ ProcessRetCheckFails(f)
    \/ \E landmark9 \in Landmark9(f) : ProcessCompletes(f, landmark9)
    \/ ProcessOutOfRangeCrashes(f)

InputFrame(r, l, t) == [rect |-> r, landmarks |-> l, timestamp |-> t]

\* every rectangle with an upright hand, and every landmark list with one
\* rectangle
Frames(t) ==
    {InputFrame(r, HandLandmarks(10, Point(50, 74)), t) : r \in Rects}
        \cup {InputFrame(Rect(Point(50, 50), 30), l, t) : l \in LandmarkLists}

Next ==
    /\ frameCounter < MaxFrames
    /\ \E f \in Frames(NextTimestamp) : Process(f)
    /\ UNCHANGED twin

Spec == Init /\ [][Next]_vars

----------------------------------------------------------------------------
(* Longer runs in which only the hand turns *)

\* positions of landmark 9 that give the hand angles 81, 99, 117, 135 and
\* 153 degrees
SlideMcpPoints ==
    {Point(51, 74), Point(49, 74), Point(49, 78), Point(49, 79), Point(48, 79)}

SlideLandmarkLists ==
    {HandLandmarks(10, m) : m \in SlideMcpPoints}
        \cup {HandLandmarks(5, Wrist), << >>}

SlideFrames(t) ==
    {InputFrame(Rect(Point(50, 50), 30), l, t) : l \in SlideLandmarkLists}

NextSlide ==
    /\ frameCounter < MaxSlideFrames
    /\ \E f \in SlideFrames(NextTimestamp) : Process(f)
    /\ UNCHANGED twin

SpecSlide == Init /\ [][NextSlide]_vars

----------------------------------------------------------------------------
(* Two calculators side by side *)

\* a second calculator constructed with the same field values; mode says
\* which half of its frames it shares with the first one
TwinStart(mode) ==
    [mode |-> mode,
     x_center |-> previous_x_center, y_center |-> previous_y_center,
     angle |-> previous_angle, height |-> previous_rectangle_height,
     scrolling |-> None, zooming |-> None, sliding |-> None]

InitPair ==
    /\ previous_x_center \in UninitializedFloats
    /\ previous_y_center \in UninitializedFloats
    /\ previous_angle \in UninitializedFloats
    /\ previous_rectangle_height \in UninitializedFloats
    /\ frameCounter = 0
    /\ outScrolling = << >>
    /\ outZooming = << >>
    /\ outSliding = << >>
    /\ frame = NoFrame
    /\ status = "none"
    /\ before = Fields
    /\ twin \in {TwinStart("same rectangles"), TwinStart("same landmarks")}

PairRects == {Rect(Point(50, 50), 30), Rect(Point(56, 50), 100)}

\* hands at 81 and at 99 degrees
PairLandmarkLists ==
    {HandLandmarks(10, Point(51, 74)), HandLandmarks(21, Point(49, 74))}

PairFrames(t) ==
    {InputFrame(r, l, t) : r \in PairRects, l \in PairLandmarkLists}

\* the frames the second calculator may get when the first gets f
TwinFrames(f) ==
    IF twin.mode = "same rectangles"
    THEN {InputFrame(f.rect, l, f.timestamp) : l \in PairLandmarkLists}
    ELSE {InputFrame(r, f.landmarks, f.timestamp) : r \in PairRects}

\* Process of the second calculator, which has had as many calls as the
\* first
ProcessTwin(g) ==
    LET step == ProcessStep(twin, frameCounter + 1, g.rect,
                            g.landmarks[1], g.landmarks[mcpIndex + 1])
    IN  twin' = [mode |-> twin.mode,
                 x_center |-> step.x_center, y_center |-> step.y_center,
                 angle |-> step.angle, height |-> step.height,
                 scrolling |-> step.scrolling, zooming |-> step.zooming,
                 sliding |-> step.sliding]

NextPair ==
    /\ frameCounter < MaxPairFrames
    /\ \E f \in PairFrames(NextTimestamp) :
           /\ Process(f)
           /\ \E g \in TwinFrames(f) : ProcessTwin(g)

SpecPair == InitPair /\ [][NextPair]_vars

----------------------------------------------------------------------------
(* Reading a state: the latest call and what it emitted *)

Last(stream) == stream[Len(stream)]

\* the latest call ran to the end, so the last packet of each stream is its
Completed == status = "ok"

ScrollLabel == Last(outScrolling).value

ZoomLabel == Last(outZooming).value

SlideLabel == Last(outSliding).value

\* a step that is a Process call: the caller hands over a new frame
Called == frame' # frame

\* the hand angle of the landmarks of the latest frame
FrameAngle == HandAngle(frame.landmarks[1], frame.landmarks[mcpIndex + 1])

----------------------------------------------------------------------------
(* C1 *)

\* C1: on the first Process call of a classifier, with any rectangle and a
\* landmark list of at least 10 points, the scroll, zoom and slide labels
\* emitted are all "___".
C1_FirstFrameAllNone ==
    (frameCounter = 1 /\ Completed /\ Len(frame.landmarks) >= 10)
        => (ScrollLabel = None /\ ZoomLabel = None /\ SlideLabel = None)

----------------------------------------------------------------------------
(* C2 *)

\* C2: when the stored previous x center is nonzero (the code's test for a
\* stored center) and the rectangle height is positive, a movement of the
\* center along x only (same y) longer than 0.02 * height gives "Scrolling
\* right" when x grew and "Scrolling left" when x shrank; and the frame
\* (0.56, 0.5, 0.3) after the frame (0.5, 0.5, 0.3) gives "Scrolling right"
\* and the zoom label "___".
C2_HorizontalScroll ==
    LET dx == frame.rect.x_center - before.x_center
        h == frame.rect.height
    IN  /\ (/\ Completed
            /\ before.x_center # 0
            /\ h > 0
            /\ frame.rect.y_center = before.y_center)
               => /\ (100 * dx > 2 * h => ScrollLabel = "Scrolling right")
                  /\ (100 * (-dx) > 2 * h => ScrollLabel = "Scrolling left")
        /\ (/\ Completed
            /\ before.x_center = 50 /\ before.y_center = 50
            /\ before.height = 30
            /\ frame.rect = Rect(Point(56, 50), 30))
               => (ScrollLabel = "Scrolling right" /\ ZoomLabel = None)

\* the second frame of the example has been processed after the first
C2_Witness ==
    /\ Completed
    /\ frameCounter >= 2
    /\ before.x_center = 50 /\ before.y_center = 50 /\ before.height = 30
    /\ frame.rect = Rect(Point(56, 50), 30)
    /\ ScrollLabel = "Scrolling right"
    /\ ZoomLabel = None

----------------------------------------------------------------------------
(* C3 *)

\* C3 as stated: with a nonzero stored previous x center and a positive
\* height, a movement along y only (same x) longer than 0.02 * height gives
\* "Scrolling up" when y grew and "Scrolling down" when y shrank.
C3_VerticalScrollAsStated ==
    LET dy == frame.rect.y_center - before.y_center
        h == frame.rect.height
    IN  (/\ Completed
         /\ before.x_center # 0
         /\ h > 0
         /\ frame.rect.x_center = before.x_center)
            => /\ (100 * dy > 2 * h => ScrollLabel = "Scrolling up")
               /\ (100 * (-dy) > 2 * h => ScrollLabel = "Scrolling down")

\* C3 amended: under the same conditions the movement gives "Scrolling down"
\* when y grew and "Scrolling up" when y shrank (y grows downwards in the
\* image).
C3_VerticalScroll ==
    LET dy == frame.rect.y_center - before.y_center
        h == frame.rect.height
    IN  (/\ Completed
         /\ before.x_center # 0
         /\ h > 0
         /\ frame.rect.x_center = before.x_center)
            => /\ (100 * dy > 2 * h => ScrollLabel = "Scrolling down")
               /\ (100 * (-dy) > 2 * h => ScrollLabel = "Scrolling up")

\* the center went from (0.5, 0.5) to (0.5, 0.56) at height 0.3
C3_Witness ==
    /\ Completed
    /\ frameCounter >= 2
    /\ before.x_center = 50 /\ before.y_center = 50
    /\ frame.rect = Rect(Point(50, 56), 30)
    /\ ScrollLabel = "Scrolling down"

----------------------------------------------------------------------------
(* C4 *)

\* C4: when the stored previous height p is nonzero (the code's test for a
\* stored height) and the current height h is positive, the zoom label is
\* "Zoom out" exactly when h < p - 0.03 * h, "Zoom in" exactly when
\* h > p + 0.03 * h, and "___" when p - 0.03 * h <= h <= p + 0.03 * h.
C4_ZoomBand ==
    LET p == before.height
        h == frame.rect.height
    IN  (Completed /\ p # 0 /\ h > 0)
            => /\ ZoomLabel = "Zoom out" <=> 100 * h < 100 * p - 3 * h
               /\ ZoomLabel = "Zoom in" <=> 100 * h > 100 * p + 3 * h
               /\ (100 * p - 3 * h <= 100 * h /\ 100 * h <= 100 * p + 3 * h)
                      => ZoomLabel = None

\* the height went from 1.03 to 1.0, the lower end of the band
C4_Witness ==
    /\ Completed
    /\ frameCounter >= 2
    /\ before.height = 103
    /\ frame.rect.height = 100
    /\ ZoomLabel = None

----------------------------------------------------------------------------
(* C5 *)

\* C5: a call that finds the stored previous angle outside [80, 100] emits
\* the slide label "___", whatever the current angle is.
C5_SlideGate ==
    (Completed /\ ~(before.angle >= 80 /\ before.angle <= 100))
        => SlideLabel = None

\* a slide frame found the stored angle 117 and the hand at 63 degrees
C5_Witness ==
    /\ Completed
    /\ frameCounter = 4
    /\ before.angle = 117
    /\ Len(frame.landmarks) > mcpIndex
    /\ FrameAngle = 63
    /\ previous_angle = 63
    /\ SlideLabel = None

----------------------------------------------------------------------------
(* C6 *)

\* C6 as stated: a call whose counter value is odd leaves previous_angle as
\* it was, whatever the landmark list is, and stores the center and the
\* height of its rectangle as the previous ones.
C6_OddFrameAsStated ==
    (status # "none" /\ frameCounter % 2 = 1)
        => /\ previous_angle = before.angle
           /\ previous_x_center = frame.rect.x_center
           /\ previous_y_center = frame.rect.y_center
           /\ previous_rectangle_height = frame.rect.height

\* C6 amended: a call whose counter value is odd leaves previous_angle as it
\* was, whatever the landmark list is; if the landmark list is not empty the
\* call also stores the center and the height of its rectangle as the
\* previous ones (with an empty list it stores nothing).
C6_OddFrame ==
    (status # "none" /\ frameCounter % 2 = 1)
        => /\ previous_angle = before.angle
           /\ Len(frame.landmarks) > 0
                  => /\ previous_x_center = frame.rect.x_center
                     /\ previous_y_center = frame.rect.y_center
                     /\ previous_rectangle_height = frame.rect.height
           /\ Len(frame.landmarks) = 0
                  => /\ previous_x_center = before.x_center
                     /\ previous_y_center = before.y_center
                     /\ previous_rectangle_height = before.height

\* the third call found the angle 90 and the rectangle (0.51, 0.5, 1.0)
\* stored and got a hand at 63 degrees in the rectangle (0.5, 0.5, 0.3)
C6_Witness ==
    /\ Completed
    /\ frameCounter = 3
    /\ before.angle = 90
    /\ Len(frame.landmarks) > mcpIndex
    /\ FrameAngle = 63
    /\ previous_angle = 90
    /\ before.x_center = 51 /\ before.height = 100
    /\ frame.rect = Rect(Point(50, 50), 30)
    /\ previous_x_center = 50 /\ previous_rectangle_height = 30

----------------------------------------------------------------------------
(* C7 *)

\* C7 as stated: once a frame of positive height has been processed and
\* stored, a frame that carries the center and the (positive) height of the
\* frame before it gets the scroll label "___" and the zoom label "___".
C7_NoMotionAsStated ==
    [][(/\ Called
        /\ Len(outScrolling) >= 1
        /\ previous_rectangle_height > 0
        /\ frame'.rect = frame.rect
        /\ frame'.rect.height > 0
        /\ status' = "ok")
           => /\ Last(outScrolling').value = None
              /\ Last(outZooming').value = None]_vars

\* C7 amended: a frame that carries the center and the (positive) height of
\* the frame before it, when the call for that frame before ran to the end,
\* gets the scroll label "___" and the zoom label "___".
C7_NoMotion ==
    [][(/\ Called
        /\ frame # NoFrame
        /\ status = "ok"
        /\ frame'.rect = frame.rect
        /\ frame'.rect.height > 0
        /\ status' = "ok")
           => /\ Last(outScrolling').value = None
              /\ Last(outZooming').value = None]_vars

\* the same rectangle has been processed three times in a row
C7_Witness ==
    /\ Completed
    /\ frameCounter = 3
    /\ Len(outScrolling) = 3
    /\ frame.rect = Rect(Point(56, 50), 30)
    /\ before.x_center = 56 /\ before.y_center = 50 /\ before.height = 30
    /\ outScrolling[2].value = None /\ outZooming[2].value = None
    /\ ScrollLabel = None /\ ZoomLabel = None

----------------------------------------------------------------------------
(* C8 *)

\* the call of this step added exactly one packet to each stream, stamped
\* with the timestamp of its frame
EmitsOneTriple ==
    /\ \E l \in ScrollLabels :
           outScrolling' = Append(outScrolling, [value |-> l, timestamp |-> frame'.timestamp])
    /\ \E l \in ZoomLabels :
           outZooming' = Append(outZooming, [value |-> l, timestamp |-> frame'.timestamp])
    /\ \E l \in SlideLabels :
           outSliding' = Append(outSliding, [value |-> l, timestamp |-> frame'.timestamp])

\* the three streams carry the same timestamps, in increasing order
StreamsAligned ==
    /\ Len(outZooming) = Len(outScrolling)
    /\ Len(outSliding) = Len(outScrolling)
    /\ \A i \in 1..Len(outScrolling) :
           /\ outZooming[i].timestamp = outScrolling[i].timestamp
           /\ outSliding[i].timestamp = outScrolling[i].timestamp
           /\ i > 1 => outScrolling[i - 1].timestamp < outScrolling[i].timestamp

\* C8 as stated: every Process call adds exactly one scroll, one zoom and
\* one slide packet, stamped with the timestamp of its frame.
C8_EveryCallEmitsAsStated ==
    [][Called => EmitsOneTriple]_vars

\* C8 amended: every Process call that returns OK adds exactly one scroll,
\* one zoom and one slide packet, stamped with the timestamp of its frame,
\* and a call that does not return OK adds none; so the emitted triples
\* correspond one to one, in order, to the frames whose call returned OK.
C8_CompletedCallEmits ==
    [][Called => /\ status' = "ok" => EmitsOneTriple
                 /\ status' # "ok" => UNCHANGED outputs
                 /\ StreamsAligned']_vars

\* three calls returned OK and one, not the last, did not
C8_Witness ==
    /\ Completed
    /\ frameCounter = 4
    /\ Len(outScrolling) = 3 /\ Len(outZooming) = 3 /\ Len(outSliding) = 3
    /\ ScrollLabel # None
    /\ Last(outSliding).timestamp = frame.timestamp

----------------------------------------------------------------------------
(* C9 *)

\* C9: a Process call with an empty landmark list returns an error and goes
\* no further: it adds no packet to any stream and stores nothing in the
\* four fields.
C9_EmptyLandmarksFail ==
    [][(Called /\ Len(frame'.landmarks) = 0)
           => /\ status' = "error"
              /\ UNCHANGED outputs
              /\ UNCHANGED calcState]_vars

\* a call with an empty list failed after an earlier call had emitted, with
\* a rectangle that differs from the stored one
C9_Witness ==
    /\ status = "error"
    /\ Len(frame.landmarks) = 0
    /\ Len(outScrolling) >= 1
    /\ frame.rect.x_center # previous_x_center
    /\ frame.rect.height # previous_rectangle_height

----------------------------------------------------------------------------
(* C10 *)

\* C10: a Process call that fails leaves the previous center, the previous
\* height, the previous angle and the frame counter as they were.
C10_FailedCallKeepsState ==
    [][(Called /\ status' = "error")
           => /\ UNCHANGED calcState
              /\ UNCHANGED frameCounter]_vars

----------------------------------------------------------------------------
(* C11 *)

\* a slide frame whose landmark list has between 1 and 9 points has been
\* handed to Process, and every call before it ran to the end
ShortListOnSlideFrame ==
    /\ status # "none"
    /\ frameCounter % 2 = 0
    /\ Len(frame.landmarks) > 0
    /\ Len(frame.landmarks) < 10
    /\ Len(outScrolling) >= frameCounter - 1

\* C11: when a slide frame (even counter) carries a landmark list of 1 to 9
\* points, only the slide detection of that frame fails: the scroll and the
\* zoom label of the frame are emitted, previous_angle stays as it was, and
\* the calculator goes on to later frames.
C11_ShortListFailsSlideOnly ==
    ShortListOnSlideFrame
        => /\ status # "crashed"
           /\ Len(outScrolling) >= 1
           /\ Last(outScrolling).timestamp = frame.timestamp
           /\ Len(outZooming) >= 1
           /\ Last(outZooming).timestamp = frame.timestamp
           /\ previous_angle = before.angle

----------------------------------------------------------------------------
(* C12 *)

\* C12: a Process call whose rectangle height is zero or negative fails: it
\* emits no label and does not store that height or center.
C12_NonPositiveHeightFails ==
    (status # "none" /\ frame.rect.height <= 0)
        => /\ status = "error"
           /\ previous_rectangle_height = before.height
           /\ previous_x_center = before.x_center
           /\ previous_y_center = before.y_center

----------------------------------------------------------------------------
(* C13 *)

\* C13: a stored previous center whose x is 0.0 is a previous center: after
\* a frame with center (0.0, 0.5) has been processed, a frame of positive
\* height whose center is further than 0.02 * height from (0.0, 0.5) gets a
\* scroll label other than "___".
C13_ZeroCenterIsStored ==
    LET dx == frame.rect.x_center - before.x_center
        dy == frame.rect.y_center - before.y_center
        h == frame.rect.height
    IN  (/\ Completed
         /\ frameCounter >= 2
         /\ before.x_center = 0 /\ before.y_center = 50
         /\ h > 0
         /\ 10000 * (dx * dx + dy * dy) > 4 * h * h)
            => ScrollLabel # None

----------------------------------------------------------------------------
(* C14 *)

\* C14 as stated: after the first Process call, which got a list of at
\* least 10 landmarks, the stored center and height are those of its
\* rectangle and previous_angle is the hand angle of its landmarks 0 and 9.
C14_FirstFrameSeedsAllAsStated ==
    (frameCounter = 1 /\ Completed /\ Len(frame.landmarks) >= 10)
        => /\ previous_x_center = frame.rect.x_center
           /\ previous_y_center = frame.rect.y_center
           /\ previous_rectangle_height = frame.rect.height
           /\ previous_angle = FrameAngle

\* C14 amended: after the first Process call has run to the end, the stored
\* center and height are those of its rectangle, and previous_angle is what
\* it was before the call: the counter is 1, an odd value, so the call
\* skips the slide block.  The second call, if it runs to the end with at
\* least 10 landmarks, stores the hand angle of its own landmarks.
C14_FirstFrameSeedsRect ==
    /\ (frameCounter = 1 /\ Completed)
           => /\ previous_x_center = frame.rect.x_center
              /\ previous_y_center = frame.rect.y_center
              /\ previous_rectangle_height = frame.rect.height
              /\ previous_angle = before.angle
    /\ (frameCounter = 2 /\ Completed /\ Len(frame.landmarks) >= 10)
           => previous_angle = FrameAngle

\* the first call got a hand at 63 degrees and left previous_angle at 0
C14_Witness ==
    /\ frameCounter = 1
    /\ Completed
    /\ Len(frame.landmarks) >= 10
    /\ FrameAngle = 63
    /\ before.angle = 0
    /\ previous_angle = 0
    /\ previous_x_center = 50 /\ previous_rectangle_height = 30

----------------------------------------------------------------------------
(* C15 *)

\* C15: when the stored previous x center is nonzero, the scroll label is
\* "___" exactly when the distance d between the center and the stored one
\* is at most 0.02 * height, and otherwise it is one of the four directions;
\* every integer angle from -180 to 180 has a direction.
C15_ScrollThresholdAndCover ==
    LET dx == frame.rect.x_center - before.x_center
        dy == frame.rect.y_center - before.y_center
        h == frame.rect.height
        atMost == 2 * h >= 0 /\ 10000 * (dx * dx + dy * dy) <= 4 * h * h
    IN  /\ (Completed /\ before.x_center # 0)
               => /\ ScrollLabel = None <=> atMost
                  /\ ~atMost => ScrollLabel \in ScrollLabels \ {None}
        /\ \A angle \in -180..180 : ScrollDirection(angle) \in ScrollLabels \ {None}

\* the center went from (0.5, 0.56) to (0.56, 0.5): 45 degrees, the lower
\* end of the range of "Scrolling up"
C15_Witness ==
    /\ Completed
    /\ frameCounter >= 2
    /\ before.x_center = 50 /\ before.y_center = 56
    /\ frame.rect = Rect(Point(56, 50), 30)
    /\ ScrollLabel = "Scrolling up"

----------------------------------------------------------------------------
(* C16 *)

\* C16: after every Process call that ran to the end, the stored center and
\* height are those of the rectangle of that call, whether or not a label
\* was produced and whatever the parity of the counter.
C16_RectAlwaysStored ==
    Completed
        => /\ previous_x_center = frame.rect.x_center
           /\ previous_y_center = frame.rect.y_center
           /\ previous_rectangle_height = frame.rect.height

\* a step of 0.01 at height 1.0 on an even call: no scroll and no zoom
\* label, and the new center is stored
C16_Witness ==
    /\ Completed
    /\ frameCounter = 2
    /\ before.x_center = 50 /\ before.y_center = 50 /\ before.height = 100
    /\ frame.rect = Rect(Point(51, 50), 100)
    /\ ScrollLabel = None /\ ZoomLabel = None
    /\ previous_x_center = 51

----------------------------------------------------------------------------
(* C17 *)

\* C17: on a slide frame (even counter, at least 10 landmarks) with the
\* hand at a degrees that finds p stored: if p is in [80, 100] the slide
\* label is "Slide left" exactly when a > p + 12, "Slide right" exactly
\* when a < p - 12 and "___" when |a - p| <= 12; and in every case
\* previous_angle is a afterwards.
C17_SlideClassification ==
    LET p == before.angle
        a == FrameAngle
    IN  (Completed /\ frameCounter % 2 = 0 /\ Len(frame.landmarks) >= 10)
            => /\ previous_angle = a
               /\ (p >= 80 /\ p <= 100)
                      => /\ SlideLabel = "Slide left" <=> a > p + 12
                         /\ SlideLabel = "Slide right" <=> a < p - 12
                         /\ (a - p <= 12 /\ p - a <= 12) => SlideLabel = None

\* the fourth call found 81 stored by the second and a hand at 99 degrees
C17_Witness ==
    /\ Completed
    /\ frameCounter = 4
    /\ Len(outSliding) = 4
    /\ before.angle = 81
    /\ Len(frame.landmarks) >= 10
    /\ FrameAngle = 99
    /\ SlideLabel = "Slide left"
    /\ previous_angle = 99

----------------------------------------------------------------------------
(* C18 *)

\* C18: every Process call raises the counter by one; the slide block runs
\* on the calls with an even counter and on no other: previous_angle
\* changes only there, a call with an odd counter emits the slide label
\* "___", and of two calls in a row at most one emits "Slide left" or
\* "Slide right".
C18_CounterAndAlternation ==
    [][Called
          => /\ frameCounter' = frameCounter + 1
             /\ previous_angle' # previous_angle => frameCounter' % 2 = 0
             /\ (status' = "ok" /\ frameCounter' % 2 = 0
                     /\ Len(frame'.landmarks) >= 10)
                    => previous_angle' =
                           HandAngle(frame'.landmarks[1], frame'.landmarks[mcpIndex + 1])
             /\ (status' = "ok" /\ frameCounter' % 2 = 1)
                    => Last(outSliding').value = None
             /\ (status = "ok" /\ status' = "ok" /\ SlideLabel # None)
                    => Last(outSliding').value = None]_vars

\* the fourth call found 99 stored and a hand at 81 degrees and emitted
\* "Slide right"; the fifth got a hand at 117 degrees and emitted "___"
C18_Witness ==
    /\ Completed
    /\ frameCounter = 5
    /\ Len(outSliding) = 5
    /\ outSliding[4].value = "Slide right"
    /\ before.angle = 81
    /\ Len(frame.landmarks) >= 10
    /\ FrameAngle = 117
    /\ SlideLabel = None
    /\ previous_angle = 81

----------------------------------------------------------------------------
(* C19 *)

\* the slide stream holds the label at n timestamps that are 2 apart, that
\* is on n slide frames in a row
SlideRun(label, n) ==
    \E t \in 0..frameCounter :
        \A k \in 0..(n - 1) :
            \E i \in 1..Len(outSliding) :
                /\ outSliding[i].timestamp = t + 2 * k
                /\ outSliding[i].value = label

\* C19: no three slide frames in a row all emit "Slide left", and no three
\* all emit "Slide right".
C19_NoThreeInARow ==
    /\ ~SlideRun("Slide left", 3)
    /\ ~SlideRun("Slide right", 3)

\* 81 was stored by the second call, the fourth got 99 and the sixth 117:
\* two "Slide left" in a row
C19_Witness ==
    /\ Completed
    /\ frameCounter = 6
    /\ Len(outSliding) = 6
    /\ outSliding[2].value = None
    /\ outSliding[4].value = "Slide left"
    /\ before.angle = 99
    /\ Len(frame.landmarks) >= 10
    /\ FrameAngle = 117
    /\ SlideLabel = "Slide left"
    /\ SlideRun("Slide left", 2)

----------------------------------------------------------------------------
(* C20 *)

\* C20: of two calculators constructed with the same field values and fed
\* lists of at least 10 landmarks: when they get the same rectangles and
\* any landmarks, their scroll and zoom labels and their stored centers
\* and heights are the same after every frame; when they get the same
\* landmarks and any rectangles, their slide labels and their stored
\* angles are the same after every frame.
C20_FeaturesIndependent ==
    /\ (Completed /\ twin.mode = "same rectangles")
           => /\ twin.scrolling = ScrollLabel
              /\ twin.zooming = ZoomLabel
              /\ twin.x_center = previous_x_center
              /\ twin.y_center = previous_y_center
              /\ twin.height = previous_rectangle_height
    /\ (Completed /\ twin.mode = "same landmarks")
           => /\ twin.sliding = SlideLabel
              /\ twin.angle = previous_angle

\* on the fourth frame the two calculators got the same rectangle and hands
\* at different angles: one emitted "Slide left" and the other did not, and
\* both emitted "Scrolling right" and "Zoom in"
C20_Witness ==
    /\ Completed
    /\ frameCounter = 4
    /\ twin.mode = "same rectangles"
    /\ SlideLabel = "Slide left"
    /\ twin.sliding = None
    /\ twin.angle # previous_angle
    /\ ScrollLabel = "Scrolling right" /\ twin.scrolling = "Scrolling right"
    /\ ZoomLabel = "Zoom in" /\ twin.zooming = "Zoom in"

====
